---- MODULE Spec2Model ----
(***************************************************************************)
(* A model of the jina-sdk client: JinaBuilder, Jina::post,                *)
(* Jina::default_headers, Jina::handle_response and the three endpoint     *)
(* methods (embeddings, rerank, reader), with the request serialisation    *)
(* that serde derives for the request types.                               *)
(*                                                                         *)
(* Strings are sequences of byte codes, so that header-value legality and  *)
(* formatting are computed byte by byte as the code does.  JSON values are *)
(* tagged records; a JSON object keeps its fields in emission order.       *)
(***************************************************************************)
EXTENDS Integers, Sequences, FiniteSets, TLC

VARIABLES builder, env, built, client, calls

vars == <<builder, env, built, client, calls>>

----------------------------------------------------------------------------
(* Option<T> and Result<T, E>                                              *)

None == [some |-> FALSE]

Some(x) == [some |-> TRUE, v |-> x]

Ok(x) == [ok |-> TRUE, v |-> x]

Err(e) == [ok |-> FALSE, e |-> e]

----------------------------------------------------------------------------
(* Bounds of the model                                                     *)

\* number of calls made on the one client in the concurrent specification
MaxCalls == 2

\* longest list (strings, documents, embedding types) in a request
MaxArrLen == 1

\* most optional ReaderRequest fields set in one request
MaxSetFields == 2

CallIds == 1..MaxCalls

RECURSIVE SeqsUpTo(_, _)
SeqsUpTo(S, n) ==
    IF n = 0 THEN {<<>>}
    ELSE LET shorter == SeqsUpTo(S, n - 1)
         IN shorter \cup {Append(s, x) : s \in {t \in shorter : Len(t) = n - 1}, x \in S}

----------------------------------------------------------------------------
(* String literals of the source, as byte codes                            *)

\* "Bearer " (lib.rs:80)
BearerPrefix == <<66, 101, 97, 114, 101, 114, 32>>

\* "application/json" (lib.rs:85, reader.rs:87)
ApplicationJson == <<97, 112, 112, 108, 105, 99, 97, 116, 105, 111, 110, 47, 106, 115, 111, 110>>

\* "https://api.jina.ai" (lib.rs:22)
BASE_URL == <<104, 116, 116, 112, 115, 58, 47, 47, 97, 112, 105, 46, 106, 105, 110, 97, 46, 97, 105>>

\* "/v1/embeddings" (embeddings.rs:112)
EmbeddingsPath == <<47, 118, 49, 47, 101, 109, 98, 101, 100, 100, 105, 110, 103, 115>>

\* "/v1/rerank" (rerank.rs:80)
RerankPath == <<47, 118, 49, 47, 114, 101, 114, 97, 110, 107>>

\* bool::to_string (reader.rs:110)
BoolToString(b) == IF b THEN <<116, 114, 117, 101>> ELSE <<102, 97, 108, 115, 101>>

\* u16::to_string (reader.rs:106): decimal digits, most significant first
RECURSIVE U16ToString(_)
U16ToString(n) ==
    IF n < 10 THEN <<48 + n>>
    ELSE Append(U16ToString(n \div 10), 48 + (n % 10))

\* ReaderReturnFormat::as_str (reader.rs:72-81)
ReturnFormats == {"Default", "Markdown", "Html", "Text", "Screenshot", "Pageshot"}

ReturnFormatAsStr(f) ==
    CASE f = "Default"    -> <<100, 101, 102, 97, 117, 108, 116>>
      [] f = "Markdown"   -> <<109, 97, 114, 107, 100, 111, 119, 110>>
      [] f = "Html"       -> <<104, 116, 109, 108>>
      [] f = "Text"       -> <<116, 101, 120, 116>>
      [] f = "Screenshot" -> <<115, 99, 114, 101, 101, 110, 115, 104, 111, 116>>
      [] f = "Pageshot"   -> <<112, 97, 103, 101, 115, 104, 111, 116>>

----------------------------------------------------------------------------
(* Header values and header maps                                           *)

\* A byte HeaderValue::from_str accepts: visible ASCII, space, horizontal
\* tab and the bytes above 127; every other control character and DEL are
\* rejected.
IsLegalHeaderByte(b) == (b >= 32 /\ b # 127) \/ b = 9

\* HeaderValue::from_str / str::parse::<HeaderValue>: the bytes unchanged, or
\* InvalidHeaderValue when one byte is not legal header content.
HeaderValueFromStr(s) ==
    IF \A i \in 1..Len(s) : IsLegalHeaderByte(s[i])
    THEN Ok(s)
    ELSE Err("InvalidHeaderValue")

\* The name a HeaderMap files a header under: header names are
\* case-insensitive and are kept in lower case.
HeaderName(name) ==
    CASE name = "X-Return-Format"     -> "x-return-format"
      [] name = "X-Target-Selector"   -> "x-target-selector"
      [] name = "X-Locale"            -> "x-locale"
      [] name = "X-Proxy-Url"         -> "x-proxy-url"
      [] name = "X-Timeout"           -> "x-timeout"
      [] name = "X-No-Cache"          -> "x-no-cache"
      [] name = "X-Wait-For-Selector" -> "x-wait-for-selector"
      [] OTHER                        -> name

\* HeaderMap::insert: the value replaces any earlier value of that name.
HeaderInsert(h, name, value) ==
    [n \in (DOMAIN h) \cup {HeaderName(name)} |->
        IF n = HeaderName(name) THEN value ELSE h[n]]

EmptyHeaders == [n \in {} |-> <<>>]

----------------------------------------------------------------------------
(* JSON values, as serde_json emits them                                   *)

JString(s) == [t |-> "string", s |-> s]

\* a JSON string whose text is a fixed name of the source (a renamed variant)
JName(lit) == [t |-> "string", lit |-> lit]

JNumber(n) == [t |-> "number", n |-> n]

JBool(b) == [t |-> "bool", b |-> b]

JArray(items) == [t |-> "array", items |-> items]

\* fields: a sequence of <<key, value>> in emission order
JObject(fields) == [t |-> "object", fields |-> fields]

JKeys(obj) == {obj.fields[i][1] : i \in 1..Len(obj.fields)}

JGet(obj, key) ==
    LET i == CHOOSE j \in 1..Len(obj.fields) : obj.fields[j][1] = key
    IN obj.fields[i][2]

----------------------------------------------------------------------------
(* Request types and their derived Serialize                               *)

EmbeddingsModels ==
    {"ClipV1", "EmbeddingsV2BaseEn", "EmbeddingsV2BaseEs",
     "EmbeddingsV2BaseDe", "EmbeddingsV2BaseZh", "EmbeddingsV2BaseCode"}

EmbeddingsModelName(m) ==
    CASE m = "ClipV1"               -> "jina-clip-v1"
      [] m = "EmbeddingsV2BaseEn"   -> "jina-embeddings-v2-base-en"
      [] m = "EmbeddingsV2BaseEs"   -> "jina-embeddings-v2-base-es"
      [] m = "EmbeddingsV2BaseDe"   -> "jina-embeddings-v2-base-de"
      [] m = "EmbeddingsV2BaseZh"   -> "jina-embeddings-v2-base-zh"
      [] m = "EmbeddingsV2BaseCode" -> "jina-embeddings-v2-base-code"

RerankerModels ==
    {"RerankerV2BaseMultilingual", "RerankerV1BaseEn", "RerankerV1TinyEn",
     "RerankerV1TurboEn", "ColbertV1En"}

RerankerModelName(m) ==
    CASE m = "RerankerV2BaseMultilingual" -> "jina-reranker-v2-base-multilingual"
      [] m = "RerankerV1BaseEn"           -> "jina-reranker-v1-base-en"
      [] m = "RerankerV1TinyEn"           -> "jina-reranker-v1-tiny-en"
      [] m = "RerankerV1TurboEn"          -> "jina-reranker-v1-turbo-en"
      [] m = "ColbertV1En"                -> "jina-colbert-v1-en"

EmbeddingTypeEnums == {"Float", "Base64", "Binary", "Ubinary"}

\* #[serde(rename_all = "lowercase")]
EmbeddingTypeEnumName(e) ==
    CASE e = "Float"   -> "float"
      [] e = "Base64"  -> "base64"
      [] e = "Binary"  -> "binary"
      [] e = "Ubinary" -> "ubinary"

SerializeTextDoc(d) == JObject(<< <<"text", JString(d.text)>> >>)

SerializeImageDoc(d) == JObject(<< <<"image", JString(d.image)>> >>)

\* #[serde(untagged)]: the variant's content, with no tag
SerializeDoc(d) ==
    IF d.variant = "Text" THEN SerializeTextDoc(d) ELSE SerializeImageDoc(d)

SerializeEmbeddingsInput(i) ==
    CASE i.variant = "StringArray" ->
           JArray([k \in 1..Len(i.strings) |-> JString(i.strings[k])])
      [] i.variant = "String" -> JString(i.string)
      [] i.variant = "DocArray" ->
           JArray([k \in 1..Len(i.docs) |-> SerializeDoc(i.docs[k])])
      [] i.variant = "Doc" -> SerializeDoc(i.doc)

SerializeEmbeddingType(e) ==
    IF e.variant = "Single"
    THEN JName(EmbeddingTypeEnumName(e.single))
    ELSE JArray([k \in 1..Len(e.multiple) |-> JName(EmbeddingTypeEnumName(e.multiple[k]))])

SerializeQueryType(q) ==
    IF q.variant = "String" THEN JString(q.string) ELSE SerializeTextDoc(q.doc)

SerializeDocumentType(d) ==
    IF d.variant = "Strings"
    THEN JArray([k \in 1..Len(d.strings) |-> JString(d.strings[k])])
    ELSE JArray([k \in 1..Len(d.docs) |-> SerializeTextDoc(d.docs[k])])

\* #[serde(flatten)]: the field is serialised into the enclosing map.  A
\* struct or map contributes its entries; any other value is the error
\* "can only flatten structs and maps".
Flatten(name, json) ==
    IF json.t = "object"
    THEN Ok(json.fields)
    ELSE Err("can only flatten structs and maps")

\* #[serde(skip_serializing_if = "Option::is_none")]: the field is emitted
\* only when it is set
SkipIfNone(name, opt) ==
    IF opt.some THEN << <<name, opt.v>> >> ELSE <<>>

\* Serialize for EmbeddingsRequest: model, the flattened input, then the
\* optional fields that are set.
SerializeEmbeddingsRequest(r) ==
    LET input == Flatten("input", SerializeEmbeddingsInput(r.input))
    IN IF ~input.ok THEN Err(input.e)
       ELSE Ok(JObject(
              << <<"model", JName(EmbeddingsModelName(r.model))>> >>
              \o input.v
              \o SkipIfNone("embedding_type",
                            IF r.embedding_type.some
                            THEN Some(SerializeEmbeddingType(r.embedding_type.v)) ELSE None)
              \o SkipIfNone("normalized",
                            IF r.normalized.some THEN Some(JBool(r.normalized.v)) ELSE None)))

\* Serialize for RerankRequest: model, the flattened query, the flattened
\* documents, then the optional fields that are set.
SerializeRerankRequest(r) ==
    LET query == Flatten("query", SerializeQueryType(r.query))
        documents == Flatten("documents", SerializeDocumentType(r.documents))
    IN IF ~query.ok THEN Err(query.e)
       ELSE IF ~documents.ok THEN Err(documents.e)
       ELSE Ok(JObject(
              << <<"model", JName(RerankerModelName(r.model))>> >>
              \o query.v
              \o documents.v
              \o SkipIfNone("top_n",
                            IF r.top_n.some THEN Some(JNumber(r.top_n.v)) ELSE None)
              \o SkipIfNone("return_documents",
                            IF r.return_documents.some
                            THEN Some(JBool(r.return_documents.v)) ELSE None)))

\* json!({ "url": request.url }) (reader.rs:124-126)
ReaderBody(r) == JObject(<< <<"url", JString(r.url)>> >>)

----------------------------------------------------------------------------
(* The client: construction                                                *)

\* Mutant of BuildResult: a missing credential defaults to the empty string.
BuildResultDefaultKey(b, e) ==
    IF ~b.http_client
    THEN Err("you must provide an HttpClient implementation")
    ELSE LET key == IF b.api_key.some THEN b.api_key ELSE e
         IN Ok([api_key |-> IF key.some THEN key.v ELSE <<>>,
                base_url |-> IF b.base_url.some THEN b.base_url.v ELSE BASE_URL])

\* Mutant of BuildResult: the credential is validated as a header value at
\* construction.
BuildResultValidating(b, e) ==
    IF ~b.http_client
    THEN Err("you must provide an HttpClient implementation")
    ELSE LET key == IF b.api_key.some THEN b.api_key ELSE e
         IN IF ~key.some
            THEN Err("API key is required")
            ELSE IF ~HeaderValueFromStr(BearerPrefix \o key.v).ok
            THEN Err("API key is not a legal header value")
            ELSE Ok([api_key |-> key.v,
                     base_url |-> IF b.base_url.some THEN b.base_url.v ELSE BASE_URL])

\* JinaBuilder::build: the transport handle is required; the credential is
\* the explicit one, else the EXA_API_KEY environment variable, else an
\* error; the base URL defaults to BASE_URL.  The credential's content is
\* not inspected.
BuildResult(b, e) ==
    IF ~b.http_client
    THEN Err("you must provide an HttpClient implementation")
    ELSE LET key == IF b.api_key.some THEN b.api_key ELSE e
         IN IF ~key.some
            THEN Err("API key is required")
            ELSE Ok([api_key |-> key.v,
                     base_url |-> IF b.base_url.some THEN b.base_url.v ELSE BASE_URL])

\* Jina::default_headers: Authorization and Content-Type.  The `expect` on
\* the Authorization value panics when "Bearer <key>" is not a legal header
\* value; Err("panic") stands for that abort.
DefaultHeaders(jina) ==
    LET auth == HeaderValueFromStr(BearerPrefix \o jina.api_key)
    IN IF ~auth.ok
       THEN Err("panic")
       ELSE Ok(HeaderInsert(HeaderInsert(EmptyHeaders, "authorization", auth.v),
                            "content-type", ApplicationJson))

----------------------------------------------------------------------------
(* Outcomes of a call                                                      *)

NoOutcome == [kind |-> "none"]

\* the call aborted by a panic: no value is returned to the caller
Panic(msg) == [kind |-> "Panic", message |-> msg]

Success(body) == [kind |-> "Ok", value |-> body]

Failure(e) == [kind |-> "Err", error |-> e]

HttpError(status, payload) ==
    [kind |-> "Err", error |-> "HttpError", status |-> status, payload |-> payload]

\* StatusCode::is_success
IsSuccess(status) == 200 <= status /\ status < 300

\* Mutant of HandleResponse: an error body that does not decode fails the
\* call (`?` in place of `.ok()`).
HandleResponseStrictPayload(response) ==
    IF ~IsSuccess(response.status)
    THEN IF response.body.readable /\ response.body.error_payload
         THEN HttpError(response.status, Some(response.body))
         ELSE Failure("Deserialize")
    ELSE IF ~response.body.readable
    THEN Failure("BodyRead")
    ELSE IF response.body.response
    THEN Success(response.body)
    ELSE Panic("unwrap: deserialize")

\* Jina::handle_response.  A body is described by what reading and decoding
\* it yields: readable (the body can be read to the end), response (the
\* text deserialises as the expected response type), error_payload (the
\* text deserialises as HttpErrorPayload).
HandleResponse(response) ==
    IF ~IsSuccess(response.status)
    THEN HttpError(response.status,
                   IF response.body.readable /\ response.body.error_payload
                   THEN Some(response.body) ELSE None)
    ELSE IF ~response.body.readable
    THEN Failure("BodyRead")
    ELSE IF response.body.response
    THEN Success(response.body)
    ELSE Panic("unwrap: deserialize")

----------------------------------------------------------------------------
(* Requests on the wire                                                    *)

NoRequest == [endpoint |-> "none"]

NoWire == [sent |-> FALSE]

NoResponse == [received |-> FALSE]

NoBody == [read |-> FALSE]

Wire(uri, headers, body) ==
    [sent |-> TRUE, method |-> "POST", uri |-> uri, headers |-> headers, body |-> body]

\* Jina::post up to the transport send: the default headers (which may
\* panic), the JSON body (which may fail to serialise), then the request for
\* base_url + path.  Either the request handed to the transport or the
\* outcome that ends the call.
PostRequest(jina, path, body) ==
    LET headers == DefaultHeaders(jina)
    IN IF ~headers.ok
       THEN [send |-> FALSE, outcome |-> Panic("expect: header value")]
       ELSE IF ~body.ok
       THEN [send |-> FALSE, outcome |-> Failure("Serialize")]
       ELSE [send |-> TRUE, wire |-> Wire(jina.base_url \o path, headers.v, body.v)]

\* Mutant of ReaderFieldHeaders: X-No-Cache is sent only when no_cache is
\* true.
ReaderFieldHeadersNoCacheWhenTrue(r) ==
    << <<"X-Return-Format",
         IF r.return_format.some THEN Some(ReturnFormatAsStr(r.return_format.v)) ELSE None>>,
       <<"X-Target-Selector", r.target_selector>>,
       <<"X-Locale", r.locale>>,
       <<"X-Proxy-Url", r.proxy_url>>,
       <<"X-Timeout",
         IF r.timeout.some THEN Some(U16ToString(r.timeout.v)) ELSE None>>,
       <<"X-No-Cache",
         IF r.no_cache.some /\ r.no_cache.v THEN Some(BoolToString(TRUE)) ELSE None>>,
       <<"X-Wait-For-Selector", r.wait_for_selector>> >>

\* The optional ReaderRequest fields in the order the code inserts them, each
\* with its header name and the string it is rendered to.
ReaderFieldHeaders(r) ==
    << <<"X-Return-Format",
         IF r.return_format.some THEN Some(ReturnFormatAsStr(r.return_format.v)) ELSE None>>,
       <<"X-Target-Selector", r.target_selector>>,
       <<"X-Locale", r.locale>>,
       <<"X-Proxy-Url", r.proxy_url>>,
       <<"X-Timeout",
         IF r.timeout.some THEN Some(U16ToString(r.timeout.v)) ELSE None>>,
       <<"X-No-Cache",
         IF r.no_cache.some THEN Some(BoolToString(r.no_cache.v)) ELSE None>>,
       <<"X-Wait-For-Selector", r.wait_for_selector>> >>

\* Mutant of InsertFieldHeaders: a value that does not parse is left out
\* (`if let Ok(v) = value.parse()`).
RECURSIVE InsertFieldHeadersSkipInvalid(_, _)
InsertFieldHeadersSkipInvalid(headers, fields) ==
    IF fields = <<>> THEN Ok(headers)
    ELSE LET name == Head(fields)[1]
             opt == Head(fields)[2]
         IN IF ~opt.some THEN InsertFieldHeadersSkipInvalid(headers, Tail(fields))
            ELSE LET value == HeaderValueFromStr(opt.v)
                 IN IF ~value.ok THEN InsertFieldHeadersSkipInvalid(headers, Tail(fields))
                    ELSE InsertFieldHeadersSkipInvalid(
                           HeaderInsert(headers, name, value.v), Tail(fields))

\* The chain of `if let Some(..) { headers.insert(name, value.parse()?) }`:
\* a field that is set is parsed as a header value and inserted; the first
\* value that does not parse ends the call with that error.
RECURSIVE InsertFieldHeaders(_, _)
InsertFieldHeaders(headers, fields) ==
    IF fields = <<>> THEN Ok(headers)
    ELSE LET name == Head(fields)[1]
             opt == Head(fields)[2]
         IN IF ~opt.some THEN InsertFieldHeaders(headers, Tail(fields))
            ELSE LET value == HeaderValueFromStr(opt.v)
                 IN IF ~value.ok THEN Err(value.e)
                    ELSE InsertFieldHeaders(HeaderInsert(headers, name, value.v),
                                            Tail(fields))

\* Jina::reader up to the transport send: the default headers (which may
\* panic), Accept, the X-* headers of the fields that are set, then a POST
\* to base_url whose JSON body holds the url alone.
ReaderRequestOut(jina, r) ==
    LET default == DefaultHeaders(jina)
    IN IF ~default.ok
       THEN [send |-> FALSE, outcome |-> Panic("expect: header value")]
       ELSE LET accept == HeaderValueFromStr(ApplicationJson)
                headers == InsertFieldHeaders(
                             HeaderInsert(default.v, "accept", ApplicationJson),
                             ReaderFieldHeaders(r))
            IN IF ~accept.ok \/ ~headers.ok
               THEN [send |-> FALSE, outcome |-> Failure("InvalidHeaderValue")]
               ELSE [send |-> TRUE, wire |-> Wire(jina.base_url, headers.v, ReaderBody(r))]

----------------------------------------------------------------------------
(* Inputs                                                                  *)

\* credentials: "key", and "k\n", which is not a legal header value
LegalKey == <<107, 101, 121>>

IllegalKey == <<107, 10>>

ApiKeys == {LegalKey, IllegalKey}

\* the value of EXA_API_KEY when it is set: "env"
EnvKey == <<101, 110, 118>>

\* "http://h"
CustomUrl == <<104, 116, 116, 112, 58, 47, 47, 104>>

\* free text of requests: "hi", "a"
Texts == {<<104, 105>>, <<97>>}

\* strings for the Reader's fields: "a", "#main", "a\tb" (a tab), "a\n" (a
\* line feed), DEL
HeaderStrings == {<<97>>, <<35, 109, 97, 105, 110>>, <<97, 9, 98>>, <<97, 10>>, <<127>>}

\* target urls: "http://h", and "h\n"
Urls == {CustomUrl, <<104, 10>>}

Timeouts == {0, 30, 65535}

TopNs == {0, 1, 5}

Opt(S) == {None} \cup {Some(x) : x \in S}

Docs == {[variant |-> "Text", text |-> s] : s \in Texts}
        \cup {[variant |-> "Image", image |-> s] : s \in Texts}

TextDocs == {[text |-> s] : s \in Texts}

EmbeddingsInputs ==
    {[variant |-> "String", string |-> s] : s \in Texts}
    \cup {[variant |-> "StringArray", strings |-> a] : a \in SeqsUpTo(Texts, MaxArrLen)}
    \cup {[variant |-> "Doc", doc |-> d] : d \in Docs}
    \cup {[variant |-> "DocArray", docs |-> a] : a \in SeqsUpTo(Docs, MaxArrLen)}

EmbeddingTypes ==
    {[variant |-> "Single", single |-> e] : e \in EmbeddingTypeEnums}
    \cup {[variant |-> "Multiple", multiple |-> a] : a \in SeqsUpTo(EmbeddingTypeEnums, MaxArrLen)}

EmbeddingsRequests ==
    [model : EmbeddingsModels, input : EmbeddingsInputs,
     embedding_type : Opt(EmbeddingTypes), normalized : Opt(BOOLEAN)]

QueryTypes ==
    {[variant |-> "String", string |-> s] : s \in Texts}
    \cup {[variant |-> "TextDoc", doc |-> d] : d \in TextDocs}

DocumentTypes ==
    {[variant |-> "Strings", strings |-> a] : a \in SeqsUpTo(Texts, MaxArrLen)}
    \cup {[variant |-> "TextDocs", docs |-> a] : a \in SeqsUpTo(TextDocs, MaxArrLen)}

RerankRequests ==
    [model : RerankerModels, query : QueryTypes, documents : DocumentTypes,
     top_n : Opt(TopNs), return_documents : Opt(BOOLEAN)]

ReaderOptionalFields ==
    {"return_format", "no_cache", "wait_for_selector", "target_selector",
     "timeout", "proxy_url", "locale"}

ReaderRequests ==
    {r \in [url : Urls, return_format : Opt(ReturnFormats), no_cache : Opt(BOOLEAN),
            wait_for_selector : Opt(HeaderStrings), target_selector : Opt(HeaderStrings),
            timeout : Opt(Timeouts), proxy_url : Opt(HeaderStrings),
            locale : Opt(HeaderStrings)] :
        Cardinality({f \in ReaderOptionalFields : r[f].some}) <= MaxSetFields}

\* what the transport's send resolves to: a failure before any status, or a
\* response with its status; the response's body is read afterwards
Statuses == {200, 299, 300, 429}

Bodies ==
    {b \in [readable : BOOLEAN, response : BOOLEAN, error_payload : BOOLEAN] :
        ~b.readable => (~b.response /\ ~b.error_payload)}

TransportResults ==
    {Err("transport")} \cup {Ok([status |-> st]) : st \in Statuses}

\* the requests and transport results of the concurrent specification
EmbeddingsSamples ==
    {[model |-> "ClipV1", input |-> [variant |-> "String", string |-> <<104, 105>>],
      embedding_type |-> None, normalized |-> None],
     [model |-> "ClipV1",
      input |-> [variant |-> "Doc", doc |-> [variant |-> "Text", text |-> <<104, 105>>]],
      embedding_type |-> None, normalized |-> None]}

RerankSamples ==
    {[model |-> "ColbertV1En", query |-> [variant |-> "String", string |-> <<104, 105>>],
      documents |-> [variant |-> "Strings", strings |-> << <<97>> >>],
      top_n |-> None, return_documents |-> None]}

PlainReaderRequest ==
    [url |-> CustomUrl, return_format |-> None, no_cache |-> None,
     wait_for_selector |-> None, target_selector |-> None, timeout |-> None,
     proxy_url |-> None, locale |-> None]

ReaderSamples ==
    {PlainReaderRequest,
     [PlainReaderRequest EXCEPT !.wait_for_selector = Some(<<35, 109, 97, 105, 110>>)],
     [PlainReaderRequest EXCEPT !.locale = Some(<<97, 10>>)]}

SampleResults == {Err("transport"), Ok([status |-> 200]), Ok([status |-> 429])}

SampleBodies ==
    {[readable |-> TRUE, response |-> TRUE, error_payload |-> FALSE],
     [readable |-> TRUE, response |-> FALSE, error_payload |-> FALSE],
     [readable |-> TRUE, response |-> FALSE, error_payload |-> TRUE]}

----------------------------------------------------------------------------
(* State                                                                   *)
(*   builder  the JinaBuilder: its three options, and whether build has    *)
(*            consumed it                                                  *)
(*   env      the EXA_API_KEY environment variable                         *)
(*   built    the result of build                                          *)
(*   client   the Jina value build produced, if any                        *)
(*   calls    the endpoint calls made on the client: where each stands,    *)
(*            its request, the request handed to the transport, the        *)
(*            number of transport sends, the transport's answer, the body  *)
(*            once it has been read, and the outcome                       *)

IdleCall ==
    [pc |-> "idle", endpoint |-> "none", request |-> NoRequest, wire |-> NoWire,
     sends |-> 0, response |-> NoResponse, body |-> NoBody, outcome |-> NoOutcome]

\* Jina::builder()
Init ==
    /\ builder = [open |-> TRUE, http_client |-> FALSE, api_key |-> None, base_url |-> None]
    /\ env \in Opt({EnvKey})
    /\ built = [done |-> FALSE, ok |-> FALSE, error |-> ""]
    /\ client = None
    /\ calls = [c \in CallIds |-> IdleCall]

WithHttpClient ==
    /\ builder.open
    /\ builder' = [builder EXCEPT !.http_client = TRUE]
    /\ UNCHANGED <<env, built, client, calls>>

WithApiKey(k) ==
    /\ builder.open
    /\ builder' = [builder EXCEPT !.api_key = Some(k)]
    /\ UNCHANGED <<env, built, client, calls>>

WithBaseUrl(u) ==
    /\ builder.open
    /\ builder' = [builder EXCEPT !.base_url = Some(u)]
    /\ UNCHANGED <<env, built, client, calls>>

Build ==
    /\ builder.open
    /\ LET r == BuildResult(builder, env)
       IN /\ built' = [done |-> TRUE, ok |-> r.ok, error |-> IF r.ok THEN "" ELSE r.e]
          /\ client' = IF r.ok THEN Some(r.v) ELSE None
    /\ builder' = [builder EXCEPT !.open = FALSE]
    /\ UNCHANGED <<env, calls>>

\* A call runs without suspending up to the transport send: it either ends
\* there or is left awaiting the transport.
Begin(c, endpoint, req, out) ==
    calls' = [calls EXCEPT ![c] =
                IF out.send
                THEN [pc |-> "awaiting", endpoint |-> endpoint, request |-> req,
                      wire |-> out.wire, sends |-> calls[c].sends + 1,
                      response |-> NoResponse, body |-> NoBody, outcome |-> NoOutcome]
                ELSE [pc |-> "done", endpoint |-> endpoint, request |-> req,
                      wire |-> NoWire, sends |-> calls[c].sends,
                      response |-> NoResponse, body |-> NoBody,
                      outcome |-> out.outcome]]

\* Mutant of Post: the request URL is built in place, in the client's
\* base_url.
PostAppendingPath(c, endpoint, path, req, body) ==
    /\ client.some
    /\ calls[c].pc = "idle"
    /\ Begin(c, endpoint, req, PostRequest(client.v, path, body))
    /\ client' = Some([client.v EXCEPT !.base_url = @ \o path])
    /\ UNCHANGED <<builder, env, built>>

Post(c, endpoint, path, req, body) ==
    /\ client.some
    /\ calls[c].pc = "idle"
    /\ Begin(c, endpoint, req, PostRequest(client.v, path, body))
    /\ UNCHANGED <<builder, env, built, client>>

\* Jina::embeddings
Embeddings(c, req) ==
    Post(c, "embeddings", EmbeddingsPath, req, SerializeEmbeddingsRequest(req))

\* Jina::rerank
Rerank(c, req) ==
    Post(c, "rerank", RerankPath, req, SerializeRerankRequest(req))

\* Jina::reader
Reader(c, req) ==
    /\ client.some
    /\ calls[c].pc = "idle"
    /\ Begin(c, "reader", req, ReaderRequestOut(client.v, req))
    /\ UNCHANGED <<builder, env, built, client>>

\* The awaited send resolves (lib.rs:71, reader.rs:128).  A transport
\* failure is returned as it is and ends the call.  A response enters
\* handle_response, which takes its status and starts reading the body
\* (`.json().await` or `.text().await`): the call is suspended again, with
\* the transport's answer in hand and its outcome still open.
SendResolves(c, result) ==
    /\ calls[c].pc = "awaiting"
    /\ calls' = [calls EXCEPT ![c] =
                   IF result.ok
                   THEN [@ EXCEPT !.pc = "reading",
                                  !.response = [received |-> TRUE, result |-> result]]
                   ELSE [@ EXCEPT !.pc = "done",
                                  !.response = [received |-> TRUE, result |-> result],
                                  !.outcome = Failure("Transport")]]
    /\ UNCHANGED <<builder, env, built, client>>

\* The body read resolves and handle_response runs to its end: the payload
\* of an error status is decoded if it can be, the body of a success status
\* is deserialised.
ReadBody(c, body) ==
    /\ calls[c].pc = "reading"
    /\ calls' = [calls EXCEPT ![c] =
                   [@ EXCEPT !.pc = "done",
                             !.body = [read |-> TRUE, content |-> body],
                             !.outcome = HandleResponse(
                                           [status |-> calls[c].response.result.v.status,
                                            body |-> body])]]
    /\ UNCHANGED <<builder, env, built, client>>

Configure ==
    \/ WithHttpClient
    \/ \E k \in ApiKeys : WithApiKey(k)
    \/ \E u \in {CustomUrl} : WithBaseUrl(u)
    \/ Build

\* Calls on one client, interleaved, on a few representative requests.
Next ==
    \/ Configure
    \/ \E c \in CallIds : \E r \in EmbeddingsSamples : Embeddings(c, r)
    \/ \E c \in CallIds : \E r \in RerankSamples : Rerank(c, r)
    \/ \E c \in CallIds : \E r \in ReaderSamples : Reader(c, r)
    \/ \E c \in CallIds : \E res \in SampleResults : SendResolves(c, res)
    \/ \E c \in CallIds : \E b \in SampleBodies : ReadBody(c, b)

Spec == Init /\ [][Next]_vars

\* One call, over every request and transport result within the bounds.
NextSingle ==
    \/ Configure
    \/ (calls[1].pc = "idle" /\ \E r \in EmbeddingsRequests : Embeddings(1, r))
    \/ (calls[1].pc = "idle" /\ \E r \in RerankRequests : Rerank(1, r))
    \/ (calls[1].pc = "idle" /\ \E r \in ReaderRequests : Reader(1, r))
    \/ \E res \in TransportResults : SendResolves(1, res)
    \/ \E b \in Bodies : ReadBody(1, b)

SpecSingle == Init /\ [][NextSingle]_vars

----------------------------------------------------------------------------
(* Properties                                                              *)

\* a control character: a byte below 0x20, or DEL
HasControlChar(s) == \E i \in 1..Len(s) : s[i] < 32 \/ s[i] = 127

\* a control character other than horizontal tab
HasControlCharOtherThanTab(s) ==
    \E i \in 1..Len(s) : (s[i] < 32 /\ s[i] # 9) \/ s[i] = 127

OptHasControlChar(opt) == opt.some /\ HasControlChar(opt.v)

OptHasControlCharOtherThanTab(opt) == opt.some /\ HasControlCharOtherThanTab(opt.v)

\* the credential of the built client passes default_headers
CredentialIsHeaderSafe ==
    client.some /\ ~HasControlCharOtherThanTab(client.v.api_key)

Received(c) == calls[c].response.received /\ calls[c].response.result.ok

ReceivedStatus(c) == calls[c].response.result.v.status

\* the body of the response, once it has been read
BodyRead(c) == calls[c].body.read

ReceivedBody(c) == calls[c].body.content

\* the credential build had at hand: the explicit one, else the environment's
CredentialAtBuild == IF builder.api_key.some THEN builder.api_key ELSE env

\* C1: every response received with a non-2xx status ends the call with an
\* HttpError that carries the received status, and whose payload is present
\* exactly when the body decodes as a vendor error payload; never another
\* error, never a success value.  Until the body has been read the call is
\* suspended in handle_response with no outcome.
C1_NonSuccessIsHttpError ==
    \A c \in CallIds :
        (Received(c) /\ (ReceivedStatus(c) < 200 \/ ReceivedStatus(c) > 299)) =>
            /\ calls[c].pc \in {"reading", "done"}
            /\ calls[c].pc = "reading" => (~BodyRead(c) /\ calls[c].outcome.kind = "none")
            /\ calls[c].pc = "done" =>
                   /\ BodyRead(c)
                   /\ calls[c].outcome.kind = "Err"
                   /\ calls[c].outcome.error = "HttpError"
                   /\ calls[c].outcome.status = ReceivedStatus(c)
                   /\ calls[c].outcome.payload.some <=> ReceivedBody(c).error_payload
                   /\ calls[c].outcome.payload.some =>
                          calls[c].outcome.payload.v = ReceivedBody(c)

\* C1's case: a 429 whose body decodes, and the payload present.
C1_Witness ==
    \E c \in CallIds :
        /\ Received(c)
        /\ ReceivedStatus(c) = 429
        /\ calls[c].pc = "done"
        /\ BodyRead(c)
        /\ ReceivedBody(c).error_payload
        /\ calls[c].outcome.kind = "Err"
        /\ calls[c].outcome.error = "HttpError"
        /\ calls[c].outcome.payload.some

\* C2: a 2xx response whose body can be read but does not deserialise as
\* the expected response returns, once the body has been read, an error
\* value to the caller.
C2_MalformedSuccessReturnsError ==
    \A c \in CallIds :
        (/\ Received(c)
         /\ 200 <= ReceivedStatus(c) /\ ReceivedStatus(c) <= 299
         /\ BodyRead(c)
         /\ ReceivedBody(c).readable
         /\ ~ReceivedBody(c).response) =>
            calls[c].outcome.kind = "Err"

\* C3: every call that has ended has exactly one outcome, a success value or
\* one error value, and no call sends to the transport more than once.
C3_OneOutcomeAtMostOneSend ==
    \A c \in CallIds :
        /\ calls[c].sends <= 1
        /\ calls[c].pc = "done" => calls[c].outcome.kind \in {"Ok", "Err"}
        /\ calls[c].pc # "done" => calls[c].outcome.kind = "none"

\* C4: with no explicit credential and no EXA_API_KEY, build fails whatever
\* the other options are: no client exists, and no call was begun or sent.
C4_BuildFailsWithoutCredential ==
    (built.done /\ ~builder.api_key.some /\ ~env.some) =>
        /\ ~built.ok
        /\ ~client.some
        /\ \A c \in CallIds : calls[c].pc = "idle" /\ calls[c].sends = 0

\* C4's case: build ran with a transport and a base URL but no credential.
C4_Witness ==
    /\ built.done
    /\ ~builder.api_key.some
    /\ ~env.some
    /\ builder.http_client
    /\ builder.base_url.some
    /\ ~built.ok

\* the header names a reader request may carry, as the transport sees them
\* (lower case; header names are case-insensitive)
OutboundHeaderNames ==
    {"authorization", "content-type", "accept", "x-return-format",
     "x-target-selector", "x-locale", "x-proxy-url", "x-timeout", "x-no-cache",
     "x-wait-for-selector"}

\* C5: a request reader sends has a JSON body holding the url alone, carries
\* each X-* header exactly when its field is set, with the field's value,
\* and keeps the default Authorization and Content-Type headers.  (Header
\* names are matched without regard to case.)
C5_ReaderHeadersAndBody ==
    \A c \in CallIds :
        (calls[c].endpoint = "reader" /\ calls[c].wire.sent) =>
            LET r == calls[c].request
                h == calls[c].wire.headers
                Carries(name, opt) ==
                    /\ (name \in DOMAIN h) <=> opt.some
                    /\ opt.some => h[name] = opt.v
            IN /\ JKeys(calls[c].wire.body) = {"url"}
               /\ Len(calls[c].wire.body.fields) = 1
               /\ JGet(calls[c].wire.body, "url") = [t |-> "string", s |-> r.url]
               /\ Carries("x-return-format",
                          IF r.return_format.some
                          THEN Some(ReturnFormatAsStr(r.return_format.v)) ELSE None)
               /\ Carries("x-target-selector", r.target_selector)
               /\ Carries("x-locale", r.locale)
               /\ Carries("x-proxy-url", r.proxy_url)
               /\ Carries("x-timeout",
                          IF r.timeout.some THEN Some(U16ToString(r.timeout.v)) ELSE None)
               /\ Carries("x-no-cache",
                          IF r.no_cache.some
                          THEN Some(IF r.no_cache.v THEN <<116, 114, 117, 101>>
                                    ELSE <<102, 97, 108, 115, 101>>)
                          ELSE None)
               /\ Carries("x-wait-for-selector", r.wait_for_selector)
               /\ "authorization" \in DOMAIN h
               /\ h["authorization"] = <<66, 101, 97, 114, 101, 114, 32>> \o client.v.api_key
               /\ "content-type" \in DOMAIN h
               /\ h["content-type"] = ApplicationJson
               /\ DOMAIN h \subseteq OutboundHeaderNames

\* C5's case: wait_for_selector "#main" and timeout 30 are set and sent as
\* X-Wait-For-Selector: #main and X-Timeout: 30, with no other X-* header.
C5_Witness ==
    \E c \in CallIds :
        /\ calls[c].endpoint = "reader"
        /\ calls[c].wire.sent
        /\ calls[c].request.wait_for_selector = Some(<<35, 109, 97, 105, 110>>)
        /\ calls[c].request.timeout = Some(30)
        /\ calls[c].wire.headers["x-wait-for-selector"] = <<35, 109, 97, 105, 110>>
        /\ calls[c].wire.headers["x-timeout"] = <<51, 48>>
        /\ "x-no-cache" \notin DOMAIN calls[c].wire.headers

\* C6, as stated, for the calls whose credential passes default_headers: a
\* control character in url, locale, target_selector or wait_for_selector
\* makes reader return a request-construction error and send nothing.
C6_ControlCharRejected ==
    \A c \in CallIds :
        (/\ calls[c].endpoint = "reader"
         /\ CredentialIsHeaderSafe
         /\ \/ HasControlChar(calls[c].request.url)
            \/ OptHasControlChar(calls[c].request.locale)
            \/ OptHasControlChar(calls[c].request.target_selector)
            \/ OptHasControlChar(calls[c].request.wait_for_selector)) =>
            /\ calls[c].pc = "done"
            /\ calls[c].outcome = [kind |-> "Err", error |-> "InvalidHeaderValue"]
            /\ calls[c].sends = 0

\* C6, amended: a control character other than horizontal tab in locale,
\* target_selector or wait_for_selector means no request is sent; the call
\* returns a request-construction error when the credential is a legal
\* header value, and aborts in default_headers when it is not.  (A control
\* character in url, or a tab anywhere, is not rejected.)
C6_IllegalHeaderFieldRejected ==
    \A c \in CallIds :
        (/\ calls[c].endpoint = "reader"
         /\ \/ OptHasControlCharOtherThanTab(calls[c].request.locale)
            \/ OptHasControlCharOtherThanTab(calls[c].request.target_selector)
            \/ OptHasControlCharOtherThanTab(calls[c].request.wait_for_selector)) =>
            /\ calls[c].pc = "done"
            /\ calls[c].sends = 0
            /\ ~calls[c].wire.sent
            /\ CredentialIsHeaderSafe =>
                   calls[c].outcome = [kind |-> "Err", error |-> "InvalidHeaderValue"]
            /\ ~CredentialIsHeaderSafe => calls[c].outcome.kind = "Panic"

\* C6's case: a locale holding a line feed, a legal credential, and the
\* request-construction error with nothing sent.
C6_Witness ==
    \E c \in CallIds :
        /\ calls[c].endpoint = "reader"
        /\ CredentialIsHeaderSafe
        /\ calls[c].request.locale = Some(<<97, 10>>)
        /\ calls[c].outcome = [kind |-> "Err", error |-> "InvalidHeaderValue"]
        /\ calls[c].sends = 0

\* the part of an embeddings body that carries the input: the value of an
\* "input" field, or else the fields flattened beside model, embedding_type
\* and normalized
InputPart(body) ==
    IF "input" \in JKeys(body)
    THEN JGet(body, "input")
    ELSE LET IsInputField(f) == f[1] \notin {"model", "embedding_type", "normalized"}
         IN [t |-> "object", fields |-> SelectSeq(body.fields, IsInputField)]

ShapeOfInput(i) ==
    CASE i.variant = "String"      -> "string"
      [] i.variant = "StringArray" -> "array of string"
      [] i.variant = "Doc"         -> "object"
      [] i.variant = "DocArray"    -> "array of object"

ShapeOfJson(j) ==
    IF j.t # "array" THEN j.t
    ELSE IF \A k \in 1..Len(j.items) : j.items[k].t = "string" THEN "array of string"
    ELSE IF \A k \in 1..Len(j.items) : j.items[k].t = "object" THEN "array of object"
    ELSE "array"

\* C7, for the calls whose credential passes default_headers: whichever of
\* the four input variants the request holds, embeddings serialises it and
\* sends it, and the body holds model, an input part of the variant's shape
\* (string, array, object, array of objects), and embedding_type and
\* normalized exactly when they are set.
C7_EmbeddingsSerialisesEveryVariant ==
    \A c \in CallIds :
        (calls[c].endpoint = "embeddings" /\ CredentialIsHeaderSafe) =>
            /\ calls[c].wire.sent
            /\ LET body == calls[c].wire.body
                   r == calls[c].request
               IN /\ "model" \in JKeys(body)
                  /\ ("embedding_type" \in JKeys(body)) <=> r.embedding_type.some
                  /\ ("normalized" \in JKeys(body)) <=> r.normalized.some
                  /\ \/ ShapeOfJson(InputPart(body)) = ShapeOfInput(r.input)
                     \/ /\ r.input.variant \in {"StringArray", "DocArray"}
                        /\ ShapeOfJson(InputPart(body)) \in {"array of string", "array of object"}
                        /\ InputPart(body).items = <<>>

\* C8, for the calls whose credential passes default_headers: a rerank
\* request with a string query and a list of strings is serialised and
\* sent, and its body holds top_n and return_documents exactly when they
\* are set, with the caller's value.
C8_RerankOmitsUnsetOptions ==
    \A c \in CallIds :
        (/\ calls[c].endpoint = "rerank"
         /\ CredentialIsHeaderSafe
         /\ calls[c].request.query.variant = "String"
         /\ calls[c].request.documents.variant = "Strings") =>
            /\ calls[c].wire.sent
            /\ LET body == calls[c].wire.body
                   r == calls[c].request
               IN /\ ("top_n" \in JKeys(body)) <=> r.top_n.some
                  /\ r.top_n.some => JGet(body, "top_n") = [t |-> "number", n |-> r.top_n.v]
                  /\ ("return_documents" \in JKeys(body)) <=> r.return_documents.some
                  /\ r.return_documents.some =>
                         JGet(body, "return_documents") = [t |-> "bool", b |-> r.return_documents.v]

\* two calls were given the same endpoint and the same request
SameRequest(c, d) ==
    /\ calls[c].endpoint # "none"
    /\ calls[c].endpoint = calls[d].endpoint
    /\ calls[c].request = calls[d].request

\* the transport's answer to a call, if it has one: what the send resolved
\* to and the body that was read
Answer(c) == <<calls[c].response, calls[c].body>>

\* C9: at every step of any interleaving the client's base URL and
\* credential stay what build made them, and two calls given the same
\* request hand the same request to the transport and, given the same
\* answer by the transport, end in the same outcome, whatever else ran in
\* between.
C9_Stateless ==
    /\ [][client.some => client' = client]_vars
    /\ [](\A c, d \in CallIds :
            SameRequest(c, d) =>
                /\ calls[c].wire.sent = calls[d].wire.sent
                /\ calls[c].wire = calls[d].wire
                /\ (calls[c].pc = "done" /\ calls[d].pc = "done" /\ Answer(c) = Answer(d)) =>
                       calls[c].outcome = calls[d].outcome)

\* C9's case: two calls on the one client, the same request, both answered
\* by the transport with the same response, both ended.
C9_Witness ==
    \E c, d \in CallIds :
        /\ c # d
        /\ SameRequest(c, d)
        /\ calls[c].pc = "done"
        /\ calls[d].pc = "done"
        /\ Received(c)
        /\ Answer(c) = Answer(d)
        /\ calls[c].outcome.kind = "Ok"
        /\ calls[d].outcome.kind = "Ok"
        /\ client.v.base_url = CustomUrl

\* C10, as stated: build succeeds for any credential that is present; and a
\* credential that is not a legal header value aborts every call in
\* default_headers, before any send and with no error value.
C10_BuildAcceptsAnyCredential ==
    /\ (built.done /\ CredentialAtBuild.some) => built.ok
    /\ \A c \in CallIds :
           (calls[c].pc # "idle" /\ ~CredentialIsHeaderSafe) =>
               /\ calls[c].pc = "done"
               /\ calls[c].outcome.kind = "Panic"
               /\ calls[c].sends = 0

\* C10, amended: build, given a transport handle, succeeds for any
\* credential that is present and keeps it as it is; a credential that is
\* not a legal header value aborts every call in default_headers, before
\* any send and with no error value, and no other credential does.
C10_BuildDoesNotValidateCredential ==
    /\ (built.done /\ CredentialAtBuild.some /\ builder.http_client) =>
           /\ built.ok
           /\ client.some
           /\ client.v.api_key = CredentialAtBuild.v
    /\ \A c \in CallIds :
           /\ (calls[c].pc # "idle" /\ ~CredentialIsHeaderSafe) =>
                  /\ calls[c].pc = "done"
                  /\ calls[c].outcome = [kind |-> "Panic", message |-> "expect: header value"]
                  /\ calls[c].sends = 0
                  /\ ~calls[c].wire.sent
           /\ (calls[c].pc # "idle" /\ CredentialIsHeaderSafe) =>
                  calls[c].outcome # [kind |-> "Panic", message |-> "expect: header value"]

\* C10's case: build accepted the credential "k\n", and a call made with it
\* aborted with nothing sent.
C10_Witness ==
    /\ built.ok
    /\ client.some
    /\ client.v.api_key = <<107, 10>>
    /\ \E c \in CallIds :
           /\ calls[c].pc = "done"
           /\ calls[c].outcome.kind = "Panic"
           /\ calls[c].sends = 0

====
